---- MODULE Spec2Model ----
(***************************************************************************)
(* Storybook generator: story parser (services/geminiService),             *)
(* top-level application state machine with its background asset pipeline  *)
(* (App.tsx), and the viewer's audio playback transport (BookViewer).      *)
(*                                                                         *)
(* Five specifications share this module:                                  *)
(*   SpecParse   - parseStoryResponse applied to bounded token texts       *)
(*   Spec        - App: handleGenerate / asset pipeline / resetApp         *)
(*   SpecViewer  - BookViewer: toggleAudio / playAudio / stopAudio and     *)
(*                 slide navigation                                        *)
(*   SpecPdf     - BookViewer: handleDownloadPdf                           *)
(*   SpecService - generateIllustration / generateNarration applied to     *)
(*                 bounded backend responses                               *)
(***************************************************************************)
EXTENDS Integers, Sequences, FiniteSets, TLC

VARIABLES
    \* ---- parser harness
    text,               \* the text blob handed to parseStoryResponse
    parsed,             \* its result
    parseDone,          \* TRUE once parseStoryResponse has run
    \* ---- App.tsx
    appState,           \* useState<AppState>
    topic,              \* useState('')
    pages,              \* useState<StoryPage[]>
    error,              \* useState<string | null>
    hgPc,               \* position of the running handleGenerate
    textCall,           \* the generateContent call of generateStoryText
    pipes,              \* one record per run of generateAssetsInBackground
    \* ---- BookViewer
    playingAudioBuffer, \* useState<AudioBuffer | null>
    sourceNodeRef,      \* useRef<AudioBufferSourceNode | null> (index in nodes, 0 = null)
    audioContextState,  \* audioContextRef.current: "none" | "suspended" | "running"
    nodes,              \* every AudioBufferSourceNode created so far
    pendingPlay,        \* playAudio calls suspended on audioContext.resume(), oldest first
    toggleLog,          \* the buffers toggleAudio was called with, in call order
    currentPageIndex,   \* useState(0)
    mode,               \* the mode prop (App's readingMode)
    mounted,            \* FALSE once the viewer has been unmounted
    isGeneratingPdf,    \* useState(false)
    pdf,                \* the running handleDownloadPdf: position, loop index, document
    \* ---- service harness
    svcCall,            \* the backend response handed to a service wrapper
    svcResult           \* what the wrapper's promise settled with

parseVars  == <<text, parsed, parseDone>>
appVars    == <<appState, topic, pages, error, hgPc, textCall, pipes>>
audioVars  == <<playingAudioBuffer, sourceNodeRef, audioContextState, nodes,
                pendingPlay, toggleLog>>
navVars    == <<currentPageIndex, mode, mounted>>
pdfVars    == <<isGeneratingPdf, pdf>>
svcVars    == <<svcCall, svcResult>>
viewerVars == <<audioVars, navVars, pdfVars, svcVars>>
vars       == <<parseVars, appVars, viewerVars>>

----------------------------------------------------------------------------
(* Bounds *)

MaxTextLen  == 5    \* tokens in a text blob given to the parser harness
MaxSessions == 2    \* runs of generateAssetsInBackground in one behaviour
MaxToggles  == 4    \* toggleAudio calls in one behaviour
MaxParts    == 3    \* parts in an image response given to the service harness
MaxBytes    == 4    \* bytes in an audio payload given to the service harness

----------------------------------------------------------------------------
(* Story parser.  A text blob is a sequence of lexical tokens:             *)
(*   "SEP1","SEP2"  a page separator  ={10,}\s*HALAMAN\s*\d+\s*={10,}      *)
(*                  (two different page numbers N)                         *)
(*   "D","S","V"    the labels [DESKRIPSI ILUSTRASI], [TEKS CERITA],       *)
(*                  [TEKS SUARA]                                           *)
(*   "E"            a run of >= 10 '=' that is not part of a separator     *)
(*   "T"            non-blank text,  "W"  whitespace                       *)

Separators == {"SEP1", "SEP2"}
Tokens     == Separators \cup {"D", "S", "V", "E", "T", "W"}

IsSep(t) == t \in Separators

\* Positions of the separator matches in txt.
SepPositions(txt) == {i \in DOMAIN txt : IsSep(txt[i])}

\* k-th (1-based) separator position.
KthSep(txt, k) ==
    CHOOSE i \in SepPositions(txt) :
        Cardinality({j \in SepPositions(txt) : j < i}) = k - 1

\* text.split(/sep/).slice(1): the piece after each separator.
SplitPages(txt) ==
    LET n == Cardinality(SepPositions(txt))
    IN  [k \in 1..n |->
            LET from == KthSep(txt, k) + 1
                to   == IF k < n THEN KthSep(txt, k + 1) - 1 ELSE Len(txt)
            IN  SubSeq(txt, from, to)]

\* String.prototype.trim on a token sequence.
Trim(s) ==
    LET solid == {i \in DOMAIN s : s[i] # "W"}
    IN  IF solid = {} THEN <<>>
        ELSE SubSeq(s, CHOOSE i \in solid : \A j \in solid : i <= j,
                       CHOOSE i \in solid : \A j \in solid : j <= i)

NoMatch == [matched |-> FALSE, cap |-> <<>>]

\* rawPage.match(/open([\s\S]*?)close/): leftmost open label, lazily up to
\* the first close label after it.
LazyMatch(raw, open, close) ==
    LET opens == {i \in DOMAIN raw : raw[i] = open}
    IN  IF opens = {} THEN NoMatch
        ELSE LET o      == CHOOSE i \in opens : \A j \in opens : i <= j
                 closes == {i \in DOMAIN raw : i > o /\ raw[i] = close}
             IN  IF closes = {} THEN NoMatch
                 ELSE LET c == CHOOSE i \in closes : \A j \in closes : i <= j
                      IN  [matched |-> TRUE, cap |-> SubSeq(raw, o + 1, c - 1)]

\* rawPage.match(/\[TEKS SUARA\]([\s\S]*?)(?:={10,}|$)/)
VoiceMatch(raw) ==
    LET opens == {i \in DOMAIN raw : raw[i] = "V"}
    IN  IF opens = {} THEN NoMatch
        ELSE LET o      == CHOOSE i \in opens : \A j \in opens : i <= j
                 closes == {i \in DOMAIN raw : i > o /\ raw[i] = "E"}
                 c      == IF closes = {} THEN Len(raw) + 1
                           ELSE CHOOSE i \in closes : \A j \in closes : i <= j
             IN  [matched |-> TRUE, cap |-> SubSeq(raw, o + 1, c - 1)]

Undefined == [kind |-> "undefined", s |-> 0, i |-> 0]

\* The record pushed for rawPages[index] (index is 0-based in the source).
MakePage(raw, index) ==
    [pageNumber              |-> index + 1,
     illustrationDescription |-> Trim(LazyMatch(raw, "D", "S").cap),
     storyText               |-> Trim(LazyMatch(raw, "S", "V").cap),
     voiceText               |-> Trim(VoiceMatch(raw).cap),
     imageUrl                |-> Undefined,
     audioBuffer             |-> Undefined,
     isLoadingAssets         |-> TRUE]

\* if (descMatch && storyMatch && voiceMatch)
AllMatch(raw) ==
    /\ LazyMatch(raw, "D", "S").matched
    /\ LazyMatch(raw, "S", "V").matched
    /\ VoiceMatch(raw).matched

RECURSIVE PushPages(_, _, _)
\* rawPages.forEach((rawPage, index) => ...), from 1-based position k on.
PushPages(rawPages, k, acc) ==
    IF k > Len(rawPages) THEN acc
    ELSE PushPages(rawPages, k + 1,
                   IF AllMatch(rawPages[k])
                   THEN Append(acc, MakePage(rawPages[k], k - 1))
                   ELSE acc)

parseStoryResponse(txt) == PushPages(SplitPages(txt), 1, <<>>)

\* Every token sequence of length <= n.
RECURSIVE TextsUpTo(_)
TextsUpTo(n) ==
    IF n = 0 THEN {<<>>}
    ELSE LET shorter == TextsUpTo(n - 1)
         IN  shorter \cup {Append(t, c) : t \in {s \in shorter : Len(s) = n - 1},
                                          c \in Tokens}

----------------------------------------------------------------------------
(* Initial values of the three groups of variables *)

AppInit ==
    /\ appState = "input"
    /\ topic = ""
    /\ pages = <<>>
    /\ error = "null"
    /\ hgPc = "idle"
    /\ textCall = [status |-> "none", text |-> <<>>, message |-> ""]
    /\ pipes = <<>>
    /\ mode = "slide"

NoExport == [pc |-> "idle", i |-> 0, doc |-> <<>>, saved |-> FALSE]

NoService == [fn |-> "none", kind |-> "none", parts |-> <<>>, native |-> FALSE]

ViewerInit ==
    /\ playingAudioBuffer = "null"
    /\ sourceNodeRef = 0
    /\ audioContextState = "none"
    /\ nodes = <<>>
    /\ pendingPlay = <<>>
    /\ toggleLog = <<>>
    /\ currentPageIndex = 0
    /\ mounted = TRUE
    /\ isGeneratingPdf = FALSE
    /\ pdf = NoExport

ServiceInit ==
    /\ svcCall = NoService
    /\ svcResult = NoService

ParseInit ==
    /\ text = <<>>
    /\ parsed = <<>>
    /\ parseDone = FALSE

\* Parser harness: the text is drawn from every token sequence of length
\* <= MaxTextLen and parseStoryResponse is applied to it.
InitParse ==
    /\ text \in TextsUpTo(MaxTextLen)
    /\ parsed = <<>>
    /\ parseDone = FALSE
    /\ AppInit
    /\ ViewerInit
    /\ ServiceInit

Parse ==
    /\ ~parseDone
    /\ parsed' = parseStoryResponse(text)
    /\ parseDone' = TRUE
    /\ UNCHANGED <<text, appVars, viewerVars>>

NextParse == Parse

SpecParse == InitParse /\ [][NextParse]_vars

----------------------------------------------------------------------------
(* App.tsx *)

Null == "null"

\* Values of the topic input: empty, blank, and a real topic.
Topics == {"", " ", "cat"}

\* Mutant of TrimTopic: the topic is tested untrimmed.
TrimTopicMissing(t) == t

\* topic.trim()
TrimTopic(t) == IF t = " " THEN "" ELSE t

\* Texts the text-generation backend may answer with.
StoryTexts ==
    { <<>>,                                                  \* no text
      <<"T">>,                                               \* no page block
      <<"SEP1", "D", "T", "S", "T", "V", "T", "E",
        "SEP2", "D", "T", "S", "T", "V", "T", "E">>,         \* two pages
      <<"SEP1", "D", "T", "S", "T", "E",
        "SEP2", "D", "T", "S", "T", "V", "T", "E">> }        \* one page, block 1 malformed

\* err.message of a rejected backend call.
RejectMessages == {"", "network down"}

NoCall == [status |-> "none", text |-> <<>>, message |-> ""]

ImageOutcomes     == {"image", "noimage", "reject"}
NarrationOutcomes == {"audio", "noaudio", "reject"}

\* generateStoryText: the awaited value, or the error it throws.
generateStoryText(call) ==
    IF call.status = "rejected"
    THEN [ok |-> FALSE, pages |-> <<>>, message |-> call.message]
    ELSE IF call.text = <<>>
    THEN [ok |-> FALSE, pages |-> <<>>, message |-> "No text generated"]
    ELSE [ok |-> TRUE, pages |-> parseStoryResponse(call.text), message |-> ""]

\* Mutant of generateIllustration: a failed request is propagated instead of
\* being replaced by a placeholder.
generateIllustrationPropagating(o, s, i) ==
    IF o = "image"
    THEN [status |-> "fulfilled", value |-> [kind |-> "data", s |-> s, i |-> i]]
    ELSE [status |-> "rejected", value |-> Undefined]

\* generateIllustration: the state of the promise it returned, once the
\* backend call of request <<s, i>> has settled with outcome o.
generateIllustration(o, s, i) ==
    IF o = "image"
    THEN [status |-> "fulfilled", value |-> [kind |-> "data", s |-> s, i |-> i]]
    ELSE [status |-> "fulfilled", value |-> [kind |-> "placeholder", s |-> s, i |-> i]]

\* generateNarration: likewise.
generateNarration(o, s, i) ==
    IF o = "audio"
    THEN [status |-> "fulfilled", value |-> [kind |-> "audio", s |-> s, i |-> i]]
    ELSE [status |-> "fulfilled", value |-> Undefined]

\* States of the promise a wrapper returned, other than settled: not yet
\* called, awaiting the backend, and out of scope after its loop iteration.
NotCalled == [status |-> "idle", value |-> Undefined]
Pending   == [status |-> "pending", value |-> Undefined]
Done      == [status |-> "done", value |-> Undefined]

\* Mutant of PromiseAllSettled: resumes as soon as one promise has settled.
PromiseAnySettled(a, b) ==
    \/ a.status \in {"fulfilled", "rejected"}
    \/ b.status \in {"fulfilled", "rejected"}

\* await Promise.all([a, b]) resumes when both are fulfilled or one rejected.
PromiseAllSettled(a, b) ==
    \/ a.status = "rejected"
    \/ b.status = "rejected"
    \/ (a.status = "fulfilled" /\ b.status = "fulfilled")

\* Mutant of MergePage: isLoadingAssets is not taken from the updates.
MergePageAssetsOnly(page, updates) ==
    [f \in DOMAIN page |->
        IF f \in DOMAIN updates /\ f # "isLoadingAssets" THEN updates[f] ELSE page[f]]

\* { ...page, ...updates }
MergePage(page, updates) ==
    [f \in DOMAIN page |-> IF f \in DOMAIN updates THEN updates[f] ELSE page[f]]

\* Mutant of updatePage: an index without page empties the sequence.
updatePageClearing(prev, index, updates) ==
    IF (index + 1) \notin DOMAIN prev THEN <<>>
    ELSE LET merged == MergePage(prev[index + 1], updates)
             final  == IF merged.imageUrl # Undefined /\ merged.audioBuffer # Undefined
                       THEN [merged EXCEPT !.isLoadingAssets = FALSE]
                       ELSE merged
         IN  [prev EXCEPT ![index + 1] = final]

\* Mutant of updatePage: the updates are merged into every page.
updatePageEverywhere(prev, index, updates) ==
    [j \in DOMAIN prev |-> MergePage(prev[j], updates)]

\* The updater given to setPages by updatePage(index, updates).
updatePage(prev, index, updates) ==
    IF (index + 1) \notin DOMAIN prev THEN prev
    ELSE LET merged == MergePage(prev[index + 1], updates)
             final  == IF merged.imageUrl # Undefined /\ merged.audioBuffer # Undefined
                       THEN [merged EXCEPT !.isLoadingAssets = FALSE]
                       ELSE merged
         IN  [prev EXCEPT ![index + 1] = final]

\* A run of generateAssetsInBackground that has not left its loop.
Unfinished(pipe) == pipe.i < Len(pipe.storyPages)

\* Mutant of IssueRequests: the requests of every remaining page are issued
\* at once.
IssueAllRequests(pipe) ==
    [pipe EXCEPT !.img = [j \in DOMAIN pipe.img |->
                             IF j > pipe.i /\ pipe.img[j].status = "idle"
                             THEN Pending ELSE pipe.img[j]],
                 !.aud = [j \in DOMAIN pipe.aud |->
                             IF j > pipe.i /\ pipe.aud[j].status = "idle"
                             THEN Pending ELSE pipe.aud[j]]]

\* Loop body up to the await: both requests of page index i are issued.
IssueRequests(pipe) ==
    IF Unfinished(pipe)
    THEN [pipe EXCEPT !.img[pipe.i + 1] = Pending, !.aud[pipe.i + 1] = Pending]
    ELSE pipe

\* Mutant of NextPage: a page whose narration is missing is tried again.
NextPageRetrying(pipe) ==
    IF pipe.aud[pipe.i + 1].value = Undefined
    THEN [pipe EXCEPT !.img[pipe.i + 1] = NotCalled, !.aud[pipe.i + 1] = NotCalled]
    ELSE [pipe EXCEPT !.img[pipe.i + 1] = Done, !.aud[pipe.i + 1] = Done,
                      !.i = pipe.i + 1]

\* End of one loop iteration: the settled results of page index i go out of
\* scope ("done"), and i++.
NextPage(pipe) ==
    [pipe EXCEPT !.img[pipe.i + 1] = IF @.status = "pending" THEN @ ELSE Done,
                 !.aud[pipe.i + 1] = IF @.status = "pending" THEN @ ELSE Done,
                 !.i = pipe.i + 1]

\* generateAssetsInBackground(storyPages, style) up to its first await.
StartPipeline(storyPages) ==
    IssueRequests([storyPages |-> storyPages,
                   i          |-> 0,
                   img        |-> [j \in DOMAIN storyPages |-> NotCalled],
                   aud        |-> [j \in DOMAIN storyPages |-> NotCalled],
                   orphan     |-> FALSE])

\* Mutant of NoHandlerRunning: handleGenerate yields to the event loop between
\* the start of the pipeline and setAppState('reading').
HandlerMayYield == TRUE

\* JavaScript runs a handler to completion: nothing interleaves with the
\* synchronous tail of handleGenerate.
NoHandlerRunning == hgPc # "assetsStarted"

SetTopic(t) ==
    /\ appState = "input"
    /\ NoHandlerRunning
    /\ t # topic
    /\ topic' = t
    /\ UNCHANGED <<appState, pages, error, hgPc, textCall, pipes, parseVars, viewerVars>>

\* handleGenerate up to  await generateStoryText(topic, style)
HandleGenerate ==
    /\ appState = "input"
    /\ hgPc = "idle"
    /\ TrimTopic(topic) # ""
    /\ Len(pipes) < MaxSessions
    /\ appState' = "generating_text"
    /\ error' = Null
    /\ textCall' = [status |-> "pending", text |-> <<>>, message |-> ""]
    /\ hgPc' = "awaitText"
    /\ UNCHANGED <<topic, pages, pipes, parseVars, viewerVars>>

\* The text-generation backend call settles.
TextSettle ==
    /\ textCall.status = "pending"
    /\ \/ \E t \in StoryTexts :
            textCall' = [status |-> "fulfilled", text |-> t, message |-> ""]
       \/ \E m \in RejectMessages :
            textCall' = [status |-> "rejected", text |-> <<>>, message |-> m]
    /\ UNCHANGED <<appState, topic, pages, error, hgPc, pipes, parseVars, viewerVars>>

\* Mutant of StoryIsValid: the zero-page check is missing.
StoryAlwaysValid(storyPages) == Len(storyPages) >= 0

\* if (storyPages.length === 0) throw ...   (negated)
StoryIsValid(storyPages) == Len(storyPages) # 0

\* handleGenerate from the await to the call of generateAssetsInBackground
\* (lines 26-38), or through its catch block (lines 44-48).
HandleGenerateResume ==
    /\ hgPc = "awaitText"
    /\ textCall.status \in {"fulfilled", "rejected"}
    /\ LET r      == generateStoryText(textCall)
           thrown == IF ~r.ok THEN r.message
                     ELSE "Failed to generate valid story structure."
       IN  IF r.ok /\ StoryIsValid(r.pages)
           THEN /\ pages' = r.pages
                /\ appState' = "generating_assets"
                /\ pipes' = Append(pipes, StartPipeline(r.pages))
                /\ hgPc' = "assetsStarted"
                /\ UNCHANGED error
           ELSE /\ error' = (IF thrown # "" THEN thrown
                             ELSE "Something went wrong while creating your story.")
                /\ appState' = "error"
                /\ hgPc' = "idle"
                /\ UNCHANGED <<pages, pipes>>
    /\ textCall' = NoCall
    /\ UNCHANGED <<topic, parseVars, viewerVars>>

\* handleGenerate line 42: setAppState('reading')
HandleGenerateFinish ==
    /\ hgPc = "assetsStarted"
    /\ appState' = "reading"
    /\ hgPc' = "idle"
    /\ UNCHANGED <<topic, pages, error, textCall, pipes, parseVars, viewerVars>>

\* The image backend call of pipeline p's current page settles with outcome
\* o, and generateIllustration runs to its return.
ImageSettle(p, o) ==
    /\ NoHandlerRunning
    /\ Unfinished(pipes[p])
    /\ pipes[p].img[pipes[p].i + 1] = Pending
    /\ pipes' = [pipes EXCEPT ![p].img[pipes[p].i + 1] =
                                    generateIllustration(o, p, pipes[p].i + 1)]
    /\ UNCHANGED <<appState, topic, pages, error, hgPc, textCall, parseVars, viewerVars>>

\* The narration backend call of pipeline p's current page settles with
\* outcome o, and generateNarration runs to its return.
NarrationSettle(p, o) ==
    /\ NoHandlerRunning
    /\ Unfinished(pipes[p])
    /\ pipes[p].aud[pipes[p].i + 1] = Pending
    /\ pipes' = [pipes EXCEPT ![p].aud[pipes[p].i + 1] =
                                    generateNarration(o, p, pipes[p].i + 1)]
    /\ UNCHANGED <<appState, topic, pages, error, hgPc, textCall, parseVars, viewerVars>>

\* Mutant of PipelineResume: a page whose narration is missing is treated as
\* fatal to the session.
PipelineResumeFatal(p) ==
    /\ NoHandlerRunning
    /\ Unfinished(pipes[p])
    /\ LET pipe == pipes[p]
           i    == pipe.i
           a    == pipe.img[i + 1]
           b    == pipe.aud[i + 1]
       IN  /\ PromiseAllSettled(a, b)
           /\ pages' = updatePage(pages, i, [isLoadingAssets |-> FALSE])
           /\ pipes' = [pipes EXCEPT ![p] = IssueRequests(NextPage(pipe))]
           /\ IF b.value = Undefined
              THEN appState' = "error" /\ error' = "Narration failed"
              ELSE UNCHANGED <<appState, error>>
    /\ UNCHANGED <<topic, hgPc, textCall, parseVars, viewerVars>>

\* generateAssetsInBackground from the await of page i to the await of
\* page i + 1 (or to the end of the loop).
PipelineResume(p) ==
    /\ NoHandlerRunning
    /\ Unfinished(pipes[p])
    /\ LET pipe == pipes[p]
           i    == pipe.i
           a    == pipe.img[i + 1]
           b    == pipe.aud[i + 1]
       IN  /\ PromiseAllSettled(a, b)
           /\ pages' = IF a.status = "fulfilled" /\ b.status = "fulfilled"
                       THEN updatePage(pages, i,
                                [imageUrl        |-> a.value,
                                 audioBuffer     |-> b.value,
                                 isLoadingAssets |-> FALSE])
                       ELSE updatePage(pages, i, [isLoadingAssets |-> FALSE])
           /\ pipes' = [pipes EXCEPT ![p] = IssueRequests(NextPage(pipe))]
    /\ UNCHANGED <<appState, topic, error, hgPc, textCall, parseVars, viewerVars>>

\* resetApp is reachable from the viewer (New Story) and the error screen.
ResetApp ==
    /\ appState \in {"reading", "error"}
    /\ NoHandlerRunning
    /\ appState' = "input"
    /\ topic' = ""
    /\ pages' = <<>>
    /\ error' = Null
    /\ pipes' = [p \in DOMAIN pipes |->
                    IF Unfinished(pipes[p]) THEN [pipes[p] EXCEPT !.orphan = TRUE]
                    ELSE pipes[p]]
    /\ UNCHANGED <<hgPc, textCall, parseVars, viewerVars>>

Init ==
    /\ AppInit
    /\ ParseInit
    /\ ViewerInit
    /\ ServiceInit

Next ==
    \/ \E t \in Topics : SetTopic(t)
    \/ HandleGenerate
    \/ TextSettle
    \/ HandleGenerateResume
    \/ HandleGenerateFinish
    \/ \E p \in DOMAIN pipes, o \in ImageOutcomes : ImageSettle(p, o)
    \/ \E p \in DOMAIN pipes, o \in NarrationOutcomes : NarrationSettle(p, o)
    \/ \E p \in DOMAIN pipes : PipelineResume(p)
    \/ ResetApp

Spec == Init /\ [][Next]_vars

\* Every backend request that is pending eventually settles, and every
\* continuation that is ready to run (the tail of handleGenerate, a pipeline
\* whose Promise.all has settled) eventually runs.  Nothing is assumed about
\* the user or the text request.  A run of the pipeline takes finitely many
\* steps, so fairness for the runs together gives every run its turn.
Fairness ==
    /\ WF_vars(HandleGenerateFinish)
    /\ WF_vars(\E p \in DOMAIN pipes, o \in ImageOutcomes : ImageSettle(p, o))
    /\ WF_vars(\E p \in DOMAIN pipes, o \in NarrationOutcomes : NarrationSettle(p, o))
    /\ WF_vars(\E p \in DOMAIN pipes : PipelineResume(p))

SpecLive == Spec /\ Fairness

----------------------------------------------------------------------------
(* BookViewer: audio playback transport *)

\* The decoded narration buffers of the pages on screen.
Buffers == {"A", "B"}

\* Mutant of StopAudioNodes: the reference is dropped without stopping the node.
StopAudioNodesForgetful(ns, ref) == ns

\* stopAudio, effect on the source nodes: the node in sourceNodeRef is stopped
\* (stop() on a node that already ended is a no-op); its ended event is then
\* due.
StopAudioNodes(ns, ref) ==
    IF ref # 0 /\ ns[ref].state = "playing"
    THEN [ns EXCEPT ![ref].state = "stopped", ![ref].onendedDue = TRUE]
    ELSE ns

\* playAudio lines 104-119: stopAudio(), then a fresh source node for the
\* buffer is created, stored in sourceNodeRef and started.  captured is the
\* playingAudioBuffer of the render whose playAudio this is (the value the
\* onended closure sees).
StartNode(ns, ref, buffer, captured) ==
    Append(StopAudioNodes(ns, ref),
           [buffer |-> buffer, captured |-> captured,
            state |-> "playing", onendedDue |-> FALSE])

\* Continuations of resolved resume() promises run as microtasks, before any
\* further event.
MicrotaskDue == audioContextState = "running" /\ pendingPlay # <<>>

\* The pages whose play button is rendered: the current page in slide mode,
\* every page in scroll mode.
RenderedPages ==
    IF mode = "slide" THEN {currentPageIndex + 1} \cap DOMAIN pages
    ELSE DOMAIN pages

\* The play button of a page is disabled while the page is loading or has no
\* audio buffer; an enabled one calls toggleAudio(page.audioBuffer).
PlayButtonEnabled(buffer) ==
    \E j \in RenderedPages :
        /\ ~pages[j].isLoadingAssets
        /\ pages[j].audioBuffer = buffer

\* toggleAudio(buffer) with a defined buffer.
ToggleAudio(buffer) ==
    /\ mounted
    /\ PlayButtonEnabled(buffer)
    /\ ~MicrotaskDue
    /\ Len(toggleLog) < MaxToggles
    /\ toggleLog' = Append(toggleLog, buffer)
    /\ IF playingAudioBuffer = buffer
       THEN \* stopAudio()
            /\ nodes' = StopAudioNodes(nodes, sourceNodeRef)
            /\ sourceNodeRef' = 0
            /\ playingAudioBuffer' = Null
            /\ UNCHANGED <<audioContextState, pendingPlay>>
       ELSE \* playAudio(buffer)
            \E created \in {"suspended", "running"} :
                LET st == IF audioContextState \in {"none", "closed"} THEN created
                          ELSE audioContextState
                IN  /\ audioContextState' = st
                    /\ IF st = "suspended"
                       THEN \* await audioContextRef.current.resume()
                            /\ pendingPlay' = Append(pendingPlay,
                                   [buffer |-> buffer, captured |-> playingAudioBuffer])
                            /\ UNCHANGED <<nodes, sourceNodeRef, playingAudioBuffer>>
                       ELSE /\ nodes' = StartNode(nodes, sourceNodeRef, buffer,
                                                  playingAudioBuffer)
                            /\ sourceNodeRef' = Len(nodes) + 1
                            /\ playingAudioBuffer' = buffer
                            /\ UNCHANGED pendingPlay
    /\ UNCHANGED <<parseVars, appVars, navVars, pdfVars, svcVars>>

\* The audio context starts running: every pending resume() promise resolves.
ResumeResolve ==
    /\ audioContextState = "suspended"
    /\ pendingPlay # <<>>
    /\ audioContextState' = "running"
    /\ UNCHANGED <<playingAudioBuffer, sourceNodeRef, nodes, pendingPlay, toggleLog,
                   parseVars, appVars, navVars, pdfVars, svcVars>>

\* The oldest suspended playAudio continues after its await.
PlayAudioResume ==
    /\ MicrotaskDue
    /\ LET call == Head(pendingPlay)
       IN  /\ nodes' = StartNode(nodes, sourceNodeRef, call.buffer, call.captured)
           /\ sourceNodeRef' = Len(nodes) + 1
           /\ playingAudioBuffer' = call.buffer
    /\ pendingPlay' = Tail(pendingPlay)
    /\ UNCHANGED <<audioContextState, toggleLog, parseVars, appVars, navVars,
                   pdfVars, svcVars>>

\* source.onended of node n (lines 111-115).
OnEnded(n) ==
    IF nodes[n].captured = nodes[n].buffer
    THEN playingAudioBuffer' = Null
    ELSE UNCHANGED playingAudioBuffer

\* Node n plays its buffer to the end; its ended event is delivered.
NodeEndsNaturally(n) ==
    /\ ~MicrotaskDue
    /\ nodes[n].state = "playing"
    /\ nodes' = [nodes EXCEPT ![n].state = "ended"]
    /\ OnEnded(n)
    /\ UNCHANGED <<sourceNodeRef, audioContextState, pendingPlay, toggleLog,
                   parseVars, appVars, navVars, pdfVars, svcVars>>

\* The ended event of a node that was stopped by stop() is delivered.
EndedAfterStop(n) ==
    /\ ~MicrotaskDue
    /\ nodes[n].onendedDue
    /\ nodes' = [nodes EXCEPT ![n].onendedDue = FALSE]
    /\ OnEnded(n)
    /\ UNCHANGED <<sourceNodeRef, audioContextState, pendingPlay, toggleLog,
                   parseVars, appVars, navVars, pdfVars, svcVars>>

\* Mutant of StopOnPageChange: the effect's test is inverted.
StopOnPageChangeInverted(m) == m = "scroll"

\* The effect on [currentPageIndex, mode]: if (mode === 'slide') stopAudio().
StopOnPageChange(m) == m = "slide"

\* Mutant of Unmount: the cleanup effect is missing.
UnmountWithoutCleanup ==
    /\ mounted' = FALSE
    /\ UNCHANGED <<nodes, sourceNodeRef, playingAudioBuffer, audioContextState,
                   pendingPlay>>

\* The cleanup effect of the viewer: stopAudio(), then the audio context is
\* closed unless it is absent or closed already.  A closed context renders
\* nothing, so a playAudio suspended on resume() starts no playback any more:
\* such calls are dropped.
Unmount ==
    /\ nodes' = StopAudioNodes(nodes, sourceNodeRef)
    /\ sourceNodeRef' = 0
    /\ playingAudioBuffer' = Null
    /\ audioContextState' = IF audioContextState \in {"none", "closed"}
                            THEN audioContextState ELSE "closed"
    /\ pendingPlay' = <<>>
    /\ mounted' = FALSE

\* setCurrentPageIndex(idx) and the render that follows.  In slide mode the
\* render reads currentPage.isLoadingAssets: with currentPage undefined it
\* throws and React unmounts the tree; otherwise the page-change effect runs.
NavigateTo(idx) ==
    /\ currentPageIndex' = idx
    /\ IF idx + 1 \in DOMAIN pages
       THEN /\ IF StopOnPageChange(mode)
               THEN /\ nodes' = StopAudioNodes(nodes, sourceNodeRef)
                    /\ sourceNodeRef' = 0
                    /\ playingAudioBuffer' = Null
               ELSE UNCHANGED <<nodes, sourceNodeRef, playingAudioBuffer>>
            /\ UNCHANGED <<audioContextState, pendingPlay, mounted>>
       ELSE Unmount
    /\ UNCHANGED <<toggleLog, mode, parseVars, appVars, pdfVars, svcVars>>

\* The navigation buttons exist in slide mode only.
HandleNext ==
    /\ mounted
    /\ mode = "slide"
    /\ ~MicrotaskDue
    /\ currentPageIndex < Len(pages) - 1
    /\ NavigateTo(currentPageIndex + 1)

\* handlePrev as written: the updater is prev => prev + 1.
HandlePrev ==
    /\ mounted
    /\ mode = "slide"
    /\ ~MicrotaskDue
    /\ currentPageIndex > 0
    /\ NavigateTo(currentPageIndex + 1)

\* Click on New Story: onRestart is App's resetApp; App stops rendering the
\* viewer, whose cleanup effect runs.
Restart ==
    /\ mounted
    /\ ~MicrotaskDue
    /\ appState' = "input"
    /\ topic' = ""
    /\ pages' = <<>>
    /\ error' = Null
    /\ Unmount
    /\ UNCHANGED <<toggleLog, currentPageIndex, mode, hgPc, textCall, pipes,
                   parseVars, pdfVars, svcVars>>

\* The audio buffer of page j as the viewer sees it; a page without narration
\* has none.
AbsentBuffer == "undefined"

PageBuffer == <<"A", "B">>

\* A page of the pages prop: still loading, merged with narration, or merged
\* without narration.
ViewerPage(j, variant) ==
    LET page == MakePage(<<"D", "T", "S", "T", "V", "T">>, j - 1)
    IN  IF variant = "loading"
        THEN [page EXCEPT !.audioBuffer = AbsentBuffer]
        ELSE [page EXCEPT !.imageUrl = [kind |-> "data", s |-> 1, i |-> j],
                          !.audioBuffer = IF variant = "narrated" THEN PageBuffer[j]
                                          ELSE AbsentBuffer,
                          !.isLoadingAssets = FALSE]

PageVariants == {"loading", "narrated", "silent"}

\* The page sequences the viewer is shown with: one or two pages.
ViewerStories ==
    {<<ViewerPage(1, v)>> : v \in PageVariants}
    \cup {<<ViewerPage(1, v), ViewerPage(2, w)>> : v \in PageVariants, w \in PageVariants}

ReadingModes == {"slide", "scroll"}

\* The viewer as App renders it in state 'reading'.
InitViewer ==
    /\ ViewerInit
    /\ ParseInit
    /\ ServiceInit
    /\ appState = "reading"
    /\ topic = "cat"
    /\ pages \in ViewerStories
    /\ error = Null
    /\ hgPc = "idle"
    /\ textCall = NoCall
    /\ pipes = <<>>
    /\ mode \in ReadingModes

NextViewer ==
    \/ \E b \in Buffers : ToggleAudio(b)
    \/ ResumeResolve
    \/ PlayAudioResume
    \/ \E n \in DOMAIN nodes : NodeEndsNaturally(n)
    \/ \E n \in DOMAIN nodes : EndedAfterStop(n)
    \/ HandleNext
    \/ HandlePrev
    \/ Restart

SpecViewer == InitViewer /\ [][NextViewer]_vars

-----------------------------------------------------------------------------
(* BookViewer: handleDownloadPdf *)

\* What handleDownloadPdf finds on window: both libraries, no window.jspdf at
\* all, a window.jspdf without jsPDF, or no window.html2canvas.
PdfEnvironments == {"ok", "noJspdfGlobal", "noJsPDF", "noHtml2canvas"}

\* How html2canvas, canvas.toDataURL and doc.addImage end for one page.
CanvasOutcomes == {"canvas", "reject", "tainted", "addImageThrows"}

\* A page of a jsPDF document holds the number of the story page whose image
\* was added to it; a page nothing was added to is blank.
BlankPage == 0

HasImage(j) == pages[j].imageUrl # Undefined

\* if (!page.imageUrl) continue; : the first page from position k on that is
\* not skipped, 0 when the loop runs out.
NextIncluded(k) ==
    IF \E j \in k..Len(pages) : HasImage(j)
    THEN CHOOSE j \in k..Len(pages) :
             HasImage(j) /\ \A h \in k..(j - 1) : ~HasImage(h)
    ELSE 0

\* The loop from position k: it stops at the first await of the next included
\* page; when no page is left doc.save() is called and the finally block
\* resets isGeneratingPdf.
ContinueExport(doc, k) ==
    IF NextIncluded(k) = 0
    THEN /\ pdf' = [pc |-> "saved", i |-> 0, doc |-> doc, saved |-> TRUE]
         /\ isGeneratingPdf' = FALSE
    ELSE /\ pdf' = [pc |-> "awaitRender", i |-> NextIncluded(k), doc |-> doc,
                    saved |-> FALSE]
         /\ isGeneratingPdf' = TRUE

ExportRunning == pdf.pc \in {"awaitRender", "awaitCanvas"}

\* Click on the download button (disabled while isGeneratingPdf), up to the
\* first await.  new jsPDF(...) gives a document with one blank page.
HandleDownloadPdf(env) ==
    /\ mounted
    /\ ~isGeneratingPdf
    /\ ~ExportRunning
    /\ CASE env = "noJspdfGlobal" ->
                \* const { jsPDF } = window.jspdf throws before the check
                /\ isGeneratingPdf' = TRUE
                /\ pdf' = [pc |-> "thrown", i |-> 0, doc |-> <<>>, saved |-> FALSE]
         [] env \in {"noJsPDF", "noHtml2canvas"} ->
                \* if (!jsPDF || !html2canvas) { setIsGeneratingPdf(false); return; }
                /\ isGeneratingPdf' = FALSE
                /\ pdf' = [pc |-> "returned", i |-> 0, doc |-> <<>>, saved |-> FALSE]
         [] OTHER -> ContinueExport(<<BlankPage>>, 1)
    /\ UNCHANGED <<parseVars, appVars, audioVars, navVars, svcVars>>

\* The img of the rendered PdfPage fires load or error: onImageLoad resolves
\* the awaited promise and html2canvas is called.
PdfImageLoaded ==
    /\ pdf.pc = "awaitRender"
    /\ pdf' = [pdf EXCEPT !.pc = "awaitCanvas"]
    /\ UNCHANGED <<isGeneratingPdf, parseVars, appVars, audioVars, navVars, svcVars>>

\* if (i > 0) doc.addPage(...); doc.addImage(...) for the page at loop index
\* i = pos - 1: the image goes onto the last page of the document.
AddToDocument(doc, pos) ==
    LET paged == IF pos - 1 > 0 THEN Append(doc, BlankPage) ELSE doc
    IN  [paged EXCEPT ![Len(paged)] = pos]

\* html2canvas settles.  A canvas is added to the document and the loop goes
\* on; a rejection or a throwing toDataURL / addImage is caught, and the
\* finally block resets isGeneratingPdf.
PdfCanvasSettle(o) ==
    /\ pdf.pc = "awaitCanvas"
    /\ IF o = "canvas"
       THEN ContinueExport(AddToDocument(pdf.doc, pdf.i), pdf.i + 1)
       ELSE /\ pdf' = [pdf EXCEPT !.pc = "failed"]
            /\ isGeneratingPdf' = FALSE
    /\ UNCHANGED <<parseVars, appVars, audioVars, navVars, svcVars>>

NextPdf ==
    \/ \E env \in PdfEnvironments : HandleDownloadPdf(env)
    \/ PdfImageLoaded
    \/ \E o \in CanvasOutcomes : PdfCanvasSettle(o)

SpecPdf == InitViewer /\ [][NextPdf]_vars

-----------------------------------------------------------------------------
(* geminiService: generateIllustration and generateNarration applied to    *)
(* bounded backend responses.  A response is a record                      *)
(*   fn     which wrapper it is handed to                                  *)
(*   kind   "reject": generateContent rejected; "noParts": no candidate or *)
(*          no parts; "parts": the parts of the first candidate (image);   *)
(*          "noPayload", "badBase64", "noContext", "payload" (narration)   *)
(*   parts  image: the kinds of the parts; narration: the bytes atob       *)
(*          yields for parts[0].inlineData.data                            *)
(*   native narration: ctx.decodeAudioData accepts the bytes               *)

RECURSIVE SeqsUpTo(_, _)
SeqsUpTo(S, n) ==
    IF n = 0 THEN {<<>>}
    ELSE SeqsUpTo(S, n - 1)
         \cup {Append(q, x) : q \in {r \in SeqsUpTo(S, n - 1) : Len(r) = n - 1}, x \in S}

\* A part of an image response: text, inlineData with empty data, or
\* inlineData with one of two image payloads.
PartKinds == {"text", "emptyInline", "imgX", "imgY"}

ImagePayloads == {"imgX", "imgY"}

IllustrationResponses ==
    {[fn |-> "illustration", kind |-> k, parts |-> <<>>, native |-> FALSE] :
        k \in {"reject", "noParts"}}
    \cup {[fn |-> "illustration", kind |-> "parts", parts |-> q, native |-> FALSE] :
            q \in SeqsUpTo(PartKinds, MaxParts)}

\* Byte values of an audio payload.
ByteValues == {0, 1, 127, 128, 255}

\* ctx.decodeAudioData only accepts a file with a header: never zero bytes.
NarrationResponses ==
    {[fn |-> "narration", kind |-> k, parts |-> <<>>, native |-> FALSE] :
        k \in {"reject", "noPayload", "badBase64", "noContext"}}
    \cup {[fn |-> "narration", kind |-> "payload", parts |-> q, native |-> FALSE] :
            q \in SeqsUpTo(ByteValues, MaxBytes)}
    \cup {[fn |-> "narration", kind |-> "payload", parts |-> q, native |-> TRUE] :
            q \in SeqsUpTo(ByteValues, MaxBytes) \ {<<>>}}

\* Mutant of FirstInlineData: the loop tests part.inlineData only.
FirstInlineDataUnchecked(parts) ==
    LET hits == {k \in DOMAIN parts : parts[k] # "text"}
    IN  IF hits = {} THEN 0 ELSE CHOOSE k \in hits : \A h \in hits : k <= h

\* for (const part of parts) if (part.inlineData && part.inlineData.data):
\* the position of the first part the loop returns for, 0 if there is none.
FirstInlineData(parts) ==
    LET hits == {k \in DOMAIN parts : parts[k] \in ImagePayloads}
    IN  IF hits = {} THEN 0 ELSE CHOOSE k \in hits : \A h \in hits : k <= h

\* How the backend call ended, as generateIllustration sees it.
IllustrationOutcome(resp) ==
    IF resp.kind = "reject" THEN "reject"
    ELSE IF FirstInlineData(resp.parts) # 0 THEN "image"
    ELSE "noimage"

\* The string generateIllustration resolves to: 'data:image/png;base64,' and
\* the data of the part found, or the placeholder URL with Math.random().
IllustrationUrl(resp, rnd) ==
    IF IllustrationOutcome(resp) = "image"
    THEN <<"data:image/png;base64,", resp.parts[FirstInlineData(resp.parts)]>>
    ELSE <<"https://picsum.photos/1024/1024?random=", rnd>>

RandomValues == {"r1", "r2"}

\* Mutant of ToInt16: the two bytes are read as an unsigned number.
ToUint16(lo, hi) == lo + 256 * hi

\* dataInt16[k]: 16-bit little-endian, two's complement.
ToInt16(lo, hi) ==
    LET u == lo + 256 * hi
    IN  IF u >= 32768 THEN u - 65536 ELSE u

DecodeFailed == [ok |-> FALSE, decoded |-> "none", samples |-> <<>>]

\* Mutant of decodeAudioData: an odd trailing byte is ignored.
decodeAudioDataTruncating(bytes, native) ==
    IF native THEN [ok |-> TRUE, decoded |-> "native", samples |-> <<>>]
    ELSE IF Len(bytes) \div 2 = 0 THEN DecodeFailed
    ELSE [ok |-> TRUE, decoded |-> "pcm",
          samples |-> [k \in 1..(Len(bytes) \div 2) |->
                          ToInt16(bytes[2 * k - 1], bytes[2 * k])]]

\* decodeAudioData(data, ctx, 24000, 1): the buffer of ctx.decodeAudioData,
\* else the PCM fallback.  new Int16Array(data.buffer) throws on an odd byte
\* length and ctx.createBuffer on a frame count of 0.  A sample is kept as
\* its numerator over 32768.
decodeAudioData(bytes, native) ==
    IF native THEN [ok |-> TRUE, decoded |-> "native", samples |-> <<>>]
    ELSE IF Len(bytes) % 2 # 0 THEN DecodeFailed
    ELSE IF Len(bytes) \div 2 = 0 THEN DecodeFailed
    ELSE [ok |-> TRUE, decoded |-> "pcm",
          samples |-> [k \in 1..(Len(bytes) \div 2) |->
                          ToInt16(bytes[2 * k - 1], bytes[2 * k])]]

\* How the backend call and the decoding ended, as generateNarration sees
\* it: everything from the await to the return is inside its try block.
NarrationOutcome(resp) ==
    IF resp.kind = "reject" THEN "reject"
    ELSE IF resp.kind = "payload" /\ decodeAudioData(resp.parts, resp.native).ok
    THEN "audio"
    ELSE "noaudio"

\* The samples of the buffer generateNarration resolves to.
NarrationSamples(resp) ==
    IF NarrationOutcome(resp) = "audio"
    THEN decodeAudioData(resp.parts, resp.native).samples
    ELSE <<>>

InitService ==
    /\ AppInit
    /\ ParseInit
    /\ ViewerInit
    /\ svcCall \in IllustrationResponses \cup NarrationResponses
    /\ svcResult = NoService

ServeIllustration ==
    /\ svcCall.fn = "illustration"
    /\ svcResult = NoService
    /\ \E rnd \in RandomValues :
           svcResult' = [fn      |-> "illustration",
                         promise |-> generateIllustration(IllustrationOutcome(svcCall), 1, 1),
                         url     |-> IllustrationUrl(svcCall, rnd)]
    /\ UNCHANGED <<svcCall, parseVars, appVars, audioVars, navVars, pdfVars>>

ServeNarration ==
    /\ svcCall.fn = "narration"
    /\ svcResult = NoService
    /\ svcResult' = [fn      |-> "narration",
                     promise |-> generateNarration(NarrationOutcome(svcCall), 1, 1),
                     samples |-> NarrationSamples(svcCall)]
    /\ UNCHANGED <<svcCall, parseVars, appVars, audioVars, navVars, pdfVars>>

NextService ==
    \/ ServeIllustration
    \/ ServeNarration

SpecService == InitService /\ [][NextService]_vars

----------------------------------------------------------------------------
(* Properties of the story parser (SpecParse) *)

\* A labelled section is present in a block: its opening label occurs, with
\* its closing label somewhere after it.
SectionPresent(raw, open, close) ==
    \E a, b \in DOMAIN raw : a < b /\ raw[a] = open /\ raw[b] = close

\* A block with all three labelled sections.
WellFormedBlock(raw) ==
    /\ SectionPresent(raw, "D", "S")
    /\ SectionPresent(raw, "S", "V")
    /\ \E a \in DOMAIN raw : raw[a] = "V"

WellFormedCount(txt) ==
    Cardinality({k \in DOMAIN SplitPages(txt) : WellFormedBlock(SplitPages(txt)[k])})

\* C1: a blob with K well-formed blocks among malformed ones parses to exactly
\* K pages whose pageNumber values are 1, 2, ..., K by position in the output.
C1_ContiguousPageNumbers ==
    parseDone =>
        /\ Len(parsed) = WellFormedCount(text)
        /\ \A j \in DOMAIN parsed : parsed[j].pageNumber = j

----------------------------------------------------------------------------
(* Properties of the application and its asset pipeline (Spec) *)

\* Backend calls in flight for one run of the pipeline.
PipeInFlight(pipe) ==
    Cardinality({j \in DOMAIN pipe.img : pipe.img[j].status = "pending"})
    + Cardinality({j \in DOMAIN pipe.aud : pipe.aud[j].status = "pending"})

RECURSIVE SumInFlight(_)
SumInFlight(k) ==
    IF k = 0 THEN 0 ELSE PipeInFlight(pipes[k]) + SumInFlight(k - 1)

\* All backend calls in flight.
InFlight ==
    (IF textCall.status = "pending" THEN 1 ELSE 0) + SumInFlight(Len(pipes))

\* C2: no page of the current sequence holds an imageUrl or audioBuffer that a
\* request of an earlier session's pipeline produced.
C2_NoStaleAssetMerged ==
    \A j \in DOMAIN pages :
        /\ pages[j].imageUrl # Undefined => pages[j].imageUrl.s = Len(pipes)
        /\ pages[j].audioBuffer # Undefined => pages[j].audioBuffer.s = Len(pipes)

\* C3: in every run of the pipeline the two requests of a page are issued
\* together, and a page's requests are issued only when both requests of
\* every earlier page have settled and been consumed.
C3_PagesStrictlyInOrder ==
    \A p \in DOMAIN pipes :
        \A j \in DOMAIN pipes[p].storyPages :
            /\ (pipes[p].img[j].status = "idle") <=> (pipes[p].aud[j].status = "idle")
            /\ pipes[p].img[j].status # "idle" =>
                   /\ j <= pipes[p].i + 1
                   /\ \A k \in 1..(j - 1) :
                          /\ pipes[p].img[k].status = "done"
                          /\ pipes[p].aud[k].status = "done"

C3_Witness ==
    \E p \in DOMAIN pipes :
        /\ Len(pipes[p].storyPages) = 2
        /\ pipes[p].i = 1
        /\ pipes[p].img[1].status = "done"
        /\ pipes[p].img[2].status = "pending"
        /\ pipes[p].aud[2].status = "fulfilled"

\* C4 as claimed: at most two backend calls are in flight, whatever the user
\* does.
C4_AtMostTwoInFlight == InFlight <= 2

\* No pipeline that a reset abandoned is still running.
NoAbandonedRunning ==
    \A p \in DOMAIN pipes : pipes[p].orphan => ~Unfinished(pipes[p])

\* C4 amended: every run of the pipeline has at most two calls in flight, and
\* so has the whole application while no abandoned pipeline is still running.
C4_TwoInFlightPerPipeline ==
    /\ \A p \in DOMAIN pipes : PipeInFlight(pipes[p]) <= 2
    /\ NoAbandonedRunning => InFlight <= 2

C4_Witness ==
    /\ Len(pipes) = 2
    /\ pipes[1].orphan
    /\ ~Unfinished(pipes[1])
    /\ PipeInFlight(pipes[2]) = 2
    /\ pipes[2].i = 1

\* The awaited text generation has failed, or has produced no page.
TextFailed ==
    /\ hgPc = "awaitText"
    /\ \/ textCall.status = "rejected"
       \/ /\ textCall.status = "fulfilled"
          /\ \/ textCall.text = <<>>
             \/ Len(parseStoryResponse(textCall.text)) = 0

\* C5: when text generation fails or yields zero pages, handleGenerate ends in
\* 'error' with an error message, the page sequence untouched and no pipeline
\* started; 'error' is left only for 'input', by resetApp.
C5_TextFailureIsFatal ==
    [][ /\ (TextFailed /\ hgPc' # hgPc) =>
              /\ appState' = "error"
              /\ error' # Null
              /\ pages' = pages
              /\ pipes' = pipes
              /\ hgPc' = "idle"
        /\ appState = "error" => appState' \in {"error", "input"}
        /\ (appState = "error" /\ appState' = "input") =>
              (pages' = <<>> /\ error' = Null /\ topic' = "")
      ]_vars

C5_Witness ==
    /\ appState = "error"
    /\ error = "Failed to generate valid story structure."
    /\ pages = <<>>
    /\ hgPc = "idle"

\* A step in which a request of a running pipeline settles or the pipeline
\* moves on.
AssetStep ==
    \E p \in DOMAIN pipes :
        \/ pipes'[p].i # pipes[p].i
        \/ pipes'[p].img # pipes[p].img
        \/ pipes'[p].aud # pipes[p].aud

\* C6: no outcome of an image or narration request changes appState or error;
\* appState becomes 'error' only when text generation failed or gave no page.
C6_AssetFailuresNotFatal ==
    [][ /\ AssetStep => (appState' = appState /\ error' = error)
        /\ (appState' = "error" /\ appState # "error") => TextFailed
        /\ (error' # error /\ error' # Null) => TextFailed
      ]_vars

C6_Witness ==
    /\ appState = "reading"
    /\ error = Null
    /\ \E j \in DOMAIN pages :
          /\ ~pages[j].isLoadingAssets
          /\ pages[j].imageUrl.kind = "placeholder"
          /\ pages[j].audioBuffer = Undefined

\* No pipeline was ever abandoned by a reset while it was running.
NeverAbandoned == \A p \in DOMAIN pipes : ~pipes[p].orphan

\* C7: while no reset has abandoned a running pipeline, every page the
\* pipeline has merged is not loading and has an imageUrl, and the merge sets
\* audioBuffer exactly when the narration request produced a buffer.
C7_MergedPageNotLoading ==
    /\ [](NeverAbandoned =>
            \A j \in DOMAIN pages :
                j <= pipes[Len(pipes)].i =>
                    /\ ~pages[j].isLoadingAssets
                    /\ pages[j].imageUrl # Undefined
                    /\ pages[j].imageUrl.kind \in {"data", "placeholder"})
    /\ [][ (NeverAbandoned /\ pages # <<>> /\ pipes' # <<>> /\ Len(pipes') = Len(pipes)
            /\ pipes'[Len(pipes)].i = pipes[Len(pipes)].i + 1) =>
              LET j == pipes[Len(pipes)].i + 1
              IN  /\ (pages'[j].audioBuffer # Undefined)
                        <=> (pipes[Len(pipes)].aud[j].value.kind = "audio")
                  /\ pages'[j].imageUrl = pipes[Len(pipes)].img[j].value
                  /\ \A k \in DOMAIN pages : k # j => pages'[k] = pages[k]
         ]_vars

C7_Witness ==
    /\ NeverAbandoned
    /\ Len(pipes) = 1
    /\ pipes[1].i = 2
    /\ ~pages[1].isLoadingAssets
    /\ pages[1].imageUrl.kind = "placeholder"
    /\ pages[1].audioBuffer = Undefined
    /\ pages[2].audioBuffer.kind = "audio"

----------------------------------------------------------------------------
(* Properties of the playback transport (SpecViewer) *)

Quiescent == pendingPlay = <<>>

NoneStarted == \A n \in DOMAIN nodes : nodes[n].state # "playing"

\* C8: toggleAudio(A) followed by toggleAudio(A) leaves the transport idle,
\* also when the second call comes while the first playAudio is suspended.
C8_ToggleTwiceIsIdle ==
    (Len(toggleLog) = 2 /\ toggleLog[1] = toggleLog[2] /\ Quiescent) =>
        (playingAudioBuffer = Null /\ NoneStarted)

\* C9: at most one source node is started and not stopped, and it is the one
\* in sourceNodeRef; after toggling A and then a different buffer B, once no
\* playAudio is suspended, B's node is the current one and no other plays.
C9_SingleActiveNode ==
    /\ \A n \in DOMAIN nodes : nodes[n].state = "playing" => sourceNodeRef = n
    /\ (Len(toggleLog) >= 2 /\ Quiescent
        /\ toggleLog[Len(toggleLog)] # toggleLog[Len(toggleLog) - 1]
        /\ mounted /\ PlayButtonEnabled(toggleLog[Len(toggleLog)])) =>
            /\ sourceNodeRef # 0
            /\ nodes[sourceNodeRef].buffer = toggleLog[Len(toggleLog)]
            /\ nodes[sourceNodeRef].state \in {"playing", "ended"}
            /\ \A n \in DOMAIN nodes :
                   nodes[n].buffer # toggleLog[Len(toggleLog)] =>
                       nodes[n].state # "playing"

C9_Witness ==
    /\ toggleLog = <<"A", "B">>
    /\ Len(nodes) = 2
    /\ nodes[1].buffer = "A" /\ nodes[1].state = "stopped"
    /\ nodes[2].buffer = "B" /\ nodes[2].state = "playing"
    /\ sourceNodeRef = 2
    /\ playingAudioBuffer = "B"

\* C10: when a node ends naturally while its buffer is the tracked one,
\* playingAudioBuffer becomes null; when another buffer is tracked, the ended
\* node leaves playingAudioBuffer unchanged.
C10_NaturalEndReturnsToIdle ==
    [][ \A n \in DOMAIN nodes :
            (nodes[n].state = "playing" /\ nodes'[n].state = "ended") =>
                IF playingAudioBuffer = nodes[n].buffer
                THEN playingAudioBuffer' = Null
                ELSE playingAudioBuffer' = playingAudioBuffer
      ]_vars

\* C11: in slide mode every step that changes currentPageIndex ends with
\* stopAudio done: in the state right after the navigation no source node is
\* playing, sourceNodeRef is empty and playingAudioBuffer is null, whatever
\* was playing before.
C11_NavigationStopsAudio ==
    [][ (mode = "slide" /\ currentPageIndex' # currentPageIndex) =>
            (NoneStarted' /\ sourceNodeRef' = 0 /\ playingAudioBuffer' = Null)
      ]_vars

\* Page 1's narration was playing and was stopped by the navigation to page 2
\* (a second toggle would be in the log).
C11_Witness ==
    /\ mode = "slide"
    /\ mounted
    /\ currentPageIndex = 1
    /\ toggleLog = <<"A">>
    /\ Len(nodes) = 1
    /\ nodes[1].state = "stopped"
    /\ playingAudioBuffer = Null

\* The story pages that have an image, in their order.
IncludedPages ==
    SelectSeq([j \in 1..Len(pages) |-> j], LAMBDA j : HasImage(j))

\* C12: a saved document has exactly one page per story page with imageUrl
\* set, in the original order, and nothing for the skipped pages, also when
\* the first story page is skipped.
C12_PdfPagesAreIncludedPages ==
    pdf.saved => pdf.doc = IncludedPages

\* C13: an export that failed (library missing, rasterization or addImage
\* error) has isGeneratingPdf reset and nothing saved; a saved document holds
\* every included page.
C13_FailedExportResets ==
    /\ pdf.pc \in {"thrown", "returned", "failed"} =>
           (~isGeneratingPdf /\ ~pdf.saved)
    /\ pdf.saved =>
           \A j \in DOMAIN pages :
               HasImage(j) => \E k \in DOMAIN pdf.doc : pdf.doc[k] = j

\* C14: no parsed page has an empty illustrationDescription, storyText or
\* voiceText: a block in which a label is followed only by whitespace is
\* dropped.
C14_NoEmptySection ==
    parseDone =>
        \A j \in DOMAIN parsed :
            /\ parsed[j].illustrationDescription # <<>>
            /\ parsed[j].storyText # <<>>
            /\ parsed[j].voiceText # <<>>

\* The response has a part with non-empty inline data.
HasInlineImage(resp) ==
    resp.kind = "parts" /\ \E k \in DOMAIN resp.parts : resp.parts[k] \in ImagePayloads

\* C15: generateIllustration never rejects; whatever the backend did, it
\* resolves to a non-empty string: the data URI of the inline image when the
\* response has one, the placeholder URL otherwise.
C15_IllustrationNeverFails ==
    svcResult.fn = "illustration" =>
        /\ svcResult.promise.status = "fulfilled"
        /\ svcResult.url # <<>>
        /\ IF HasInlineImage(svcCall)
           THEN /\ svcResult.promise.value.kind = "data"
                /\ svcResult.url[1] = "data:image/png;base64,"
                /\ svcResult.url[2] \in ImagePayloads
           ELSE /\ svcResult.promise.value.kind = "placeholder"
                /\ svcResult.url[1] = "https://picsum.photos/1024/1024?random="

\* A response without image payload but with an empty inline part resolved
\* to the placeholder.
C15_Witness ==
    /\ svcResult.fn = "illustration"
    /\ svcCall.kind = "parts"
    /\ svcCall.parts = <<"text", "emptyInline">>
    /\ svcResult.promise.value.kind = "placeholder"

\* The payload of the response decodes: natively, or as 16-bit PCM of at
\* least one whole sample.
Decodable(resp) ==
    /\ resp.kind = "payload"
    /\ \/ resp.native
       \/ Len(resp.parts) > 0 /\ Len(resp.parts) % 2 = 0

\* C16: generateNarration never rejects; it resolves to undefined when the
\* request is rejected, no payload is delivered or the payload cannot be
\* decoded (odd byte count in the PCM fallback), and to an audio buffer
\* exactly when decoding succeeded.
C16_NarrationNeverFails ==
    svcResult.fn = "narration" =>
        /\ svcResult.promise.status = "fulfilled"
        /\ IF Decodable(svcCall)
           THEN svcResult.promise.value.kind = "audio"
           ELSE svcResult.promise.value = Undefined

\* A three-byte payload that is not a decodable file resolved to undefined.
C16_Witness ==
    /\ svcResult.fn = "narration"
    /\ svcCall.kind = "payload"
    /\ ~svcCall.native
    /\ Len(svcCall.parts) = 3
    /\ svcResult.promise.value = Undefined

\* C17: appState changes only along input -> generating_text (non-blank
\* topic), generating_text -> generating_assets (the text gave at least one
\* page) -> reading, generating_text -> error (text generation failed or gave
\* no page), reading -> input and error -> input; no step of the asset
\* pipeline changes it.
C17_LifecycleTransitions ==
    [][ /\ appState' # appState =>
              \/ /\ appState = "input" /\ appState' = "generating_text"
                 /\ topic \notin {"", " "}
              \/ /\ appState = "generating_text" /\ appState' = "generating_assets"
                 /\ ~TextFailed
                 /\ pages' # <<>>
              \/ appState = "generating_assets" /\ appState' = "reading"
              \/ /\ appState = "generating_text" /\ appState' = "error"
                 /\ TextFailed
              \/ appState \in {"reading", "error"} /\ appState' = "input"
        /\ AssetStep => appState' = appState
      ]_vars

\* A second session reached 'reading': the cycle input .. reading -> input
\* was gone through before.
C17_Witness ==
    /\ appState = "reading"
    /\ Len(pipes) = 2
    /\ hgPc = "idle"

\* C18: 'reading' is entered straight from 'generating_assets', with a
\* non-empty page sequence in which every page is still loading and without
\* imageUrl, and with both requests of the first page still pending.
C18_ReadingBeforeAssets ==
    [][ (appState # "reading" /\ appState' = "reading") =>
            /\ appState = "generating_assets"
            /\ pages' # <<>>
            /\ \A j \in DOMAIN pages' :
                   /\ pages'[j].isLoadingAssets
                   /\ pages'[j].imageUrl = Undefined
            /\ pipes'[Len(pipes')].img[1] = Pending
            /\ pipes'[Len(pipes')].aud[1] = Pending
      ]_vars

\* 'reading' has just been entered by the second session while the first
\* session's pipeline is still running.
C18_Witness ==
    /\ appState = "reading"
    /\ Len(pipes) = 2
    /\ pipes[1].orphan
    /\ Unfinished(pipes[1])
    /\ pipes[2].img[1] = Pending
    /\ pipes[2].aud[1] = Pending
    /\ \A j \in DOMAIN pages : pages[j].isLoadingAssets

\* C19: a page of the current sequence that is not loading any more is not
\* changed by any step that keeps the sequence.
C19_SettledPageImmutable ==
    [][ (pages # <<>> /\ pages' # <<>>) =>
            \A j \in DOMAIN pages :
                ~pages[j].isLoadingAssets =>
                    (j \in DOMAIN pages' /\ pages'[j] = pages[j])
      ]_vars

\* The text fields of a page.
PageTexts(page) ==
    <<page.pageNumber, page.illustrationDescription, page.storyText, page.voiceText>>

\* C20: while a session's pages are stored, every step that changes the
\* sequence is either resetApp, which empties it, or an asset merge, which
\* keeps the length and the text fields of every page and changes one page
\* only; resetApp always empties the sequence.
C20_PagesFrame ==
    [][ /\ (pages # <<>> /\ pages' # pages) =>
              \/ pages' = <<>> /\ appState' = "input"
              \/ /\ AssetStep
                 /\ Len(pages') = Len(pages)
                 /\ \A j \in DOMAIN pages : PageTexts(pages'[j]) = PageTexts(pages[j])
                 /\ \E i \in DOMAIN pages :
                        \A j \in DOMAIN pages : j # i => pages'[j] = pages[j]
        /\ (appState # "input" /\ appState' = "input") => pages' = <<>>
      ]_vars

\* Page 1 of a two-page story has its assets merged, page 2 is untouched.
C20_Witness ==
    /\ appState = "reading"
    /\ Len(pages) = 2
    /\ ~pages[1].isLoadingAssets
    /\ pages[1].imageUrl # Undefined
    /\ pages[2].isLoadingAssets
    /\ pages[2].imageUrl = Undefined

\* The harness ran the PCM fallback on the payload of the response.
PcmFallbackRan ==
    /\ svcResult.fn = "narration"
    /\ svcCall.kind = "payload"
    /\ ~svcCall.native

\* The buffer has one frame per byte pair, and frame k, as a numerator over
\* 32768, is the signed 16-bit number whose low byte is bytes[2k-1] and whose
\* high byte is bytes[2k]: it lies in -32768..32767 and is congruent to
\* low + 256 * high modulo 65536.
PcmFramesExact ==
    /\ svcResult.promise.value.kind = "audio"
    /\ Len(svcResult.samples) = Len(svcCall.parts) \div 2
    /\ \A k \in DOMAIN svcResult.samples :
           /\ svcResult.samples[k] \in -32768..32767
           /\ (svcResult.samples[k]
                 - (svcCall.parts[2 * k - 1] + 256 * svcCall.parts[2 * k])) % 65536 = 0

\* C21 as stated: for every byte array of even length the PCM fallback yields
\* a buffer of byteLength / 2 frames, frame k being the k-th little-endian
\* signed 16-bit sample over 32768, hence within [-1, 1].
C21_PcmDecodeEveryEvenLength ==
    (PcmFallbackRan /\ Len(svcCall.parts) % 2 = 0) => PcmFramesExact

\* C21 amended: the same for every byte array of positive even length; for
\* the empty array no buffer is made.
C21_PcmDecodePositiveEvenLength ==
    /\ (PcmFallbackRan /\ Len(svcCall.parts) % 2 = 0 /\ Len(svcCall.parts) > 0) =>
           PcmFramesExact
    /\ (PcmFallbackRan /\ Len(svcCall.parts) = 0) =>
           svcResult.promise.value = Undefined

\* The samples 32767 and -1 were decoded from the bytes FF 7F FF FF.
C21_Witness ==
    /\ PcmFallbackRan
    /\ svcCall.parts = <<255, 127, 255, 255>>
    /\ svcResult.samples = <<32767, -1>>

\* Every page of a non-empty sequence has isLoadingAssets = false.
AllPagesLoaded ==
    /\ pages # <<>>
    /\ \A j \in DOMAIN pages : ~pages[j].isLoadingAssets

\* C22: when every request eventually settles, a session that is in 'reading'
\* and is not reset eventually has isLoadingAssets = false on every page; and
\* a page that is not loading any more stays so while the sequence is kept.
C22_EventuallyAllLoaded ==
    /\ (appState = "reading") ~> (AllPagesLoaded \/ appState # "reading")
    /\ [][ (pages # <<>> /\ pages' # <<>>) =>
               \A j \in DOMAIN pages :
                   ~pages[j].isLoadingAssets =>
                       (j \in DOMAIN pages' /\ ~pages'[j].isLoadingAssets)
         ]_vars

\* Both pages of a two-page story are loaded, the second one without
\* narration, and the pipeline has left its loop.
C22_Witness ==
    /\ appState = "reading"
    /\ Len(pages) = 2
    /\ AllPagesLoaded
    /\ pages[2].audioBuffer = Undefined
    /\ ~Unfinished(pipes[Len(pipes)])

\* A call is issued when its promise becomes pending.  It is issued at most
\* once when it becomes pending only from "not called" and never returns to
\* "not called".
IssuedOnce(before, after) ==
    /\ before.status # "idle" => after.status # "idle"
    /\ (after.status = "pending" /\ before.status # "pending") => before.status = "idle"

\* C23: in every run of the pipeline generateIllustration and
\* generateNarration are called at most once per page, whatever the outcome.
C23_NoRetry ==
    [][ \A p \in DOMAIN pipes :
            \A j \in DOMAIN pipes[p].img :
                /\ IssuedOnce(pipes[p].img[j], pipes'[p].img[j])
                /\ IssuedOnce(pipes[p].aud[j], pipes'[p].aud[j])
      ]_vars

\* The narration of page 1 failed and the image request was rejected; the
\* pipeline has moved on to page 2.
C23_Witness ==
    /\ Len(pipes) = 1
    /\ Len(pages) = 2
    /\ pipes[1].i = 1
    /\ pipes[1].img[1] = Done
    /\ pipes[1].aud[1] = Done
    /\ pipes[1].aud[2] = Pending
    /\ pages[1].imageUrl.kind = "placeholder"
    /\ pages[1].audioBuffer = Undefined

\* C24: in the slide-mode viewer currentPageIndex is always a position of
\* the page sequence, 0 <= currentPageIndex < pages.length, so currentPage is
\* defined.
C24_IndexInRange ==
    (mode = "slide" /\ appState = "reading") =>
        (currentPageIndex >= 0 /\ currentPageIndex < Len(pages))

\* C25: a handlePrev step at index i > 0 moves the viewer to index i - 1 (at
\* index 0 handlePrev changes nothing), so it undoes a handleNext.
C25_PrevUndoesNext ==
    [][ HandlePrev => currentPageIndex' = currentPageIndex - 1 ]_vars

\* C26: whenever appState is 'reading' the page sequence is non-empty,
\* whatever was generated and reset before and whenever the updates of an
\* abandoned pipeline arrive.
C26_ReadingHasPages ==
    appState = "reading" => pages # <<>>

\* A one-page story is being read after the pipeline of an abandoned two-page
\* story has run to its end: its update for the second index found no page.
C26_Witness ==
    /\ appState = "reading"
    /\ Len(pages) = 1
    /\ Len(pipes) = 2
    /\ pipes[1].orphan
    /\ Len(pipes[1].storyPages) = 2
    /\ ~Unfinished(pipes[1])

====
